---- MODULE Spec2Model ----
(***************************************************************************)
(* Contact book backend: the contacts table (src/database/models.py), the  *)
(* contact repository (src/repository/contacts.py) and the /contacts       *)
(* routes (src/routes/contacts.py).                                        *)
(*                                                                         *)
(* A request is served by a worker.  Every database statement a handler    *)
(* issues (a query, a commit) is one atomic step of the store; a handler   *)
(* is the sequence of its statements, tracked by pc.  Spec runs one worker *)
(* (requests served one after the other); SpecConc runs the write handlers *)
(* of several workers against the same store, interleaved at statement     *)
(* granularity.                                                            *)
(***************************************************************************)
EXTENDS Integers, Sequences, FiniteSets, TLC

\* changed[p]: a commit of the request worker p is serving has altered the
\* contacts table.
VARIABLES users, contacts, next_id, pc, req, contact, has_contact_by_email,
          listed, resp, changed

vars == <<users, contacts, next_id, pc, req, contact, has_contact_by_email,
          listed, resp, changed>>

(* ---------------------------- bounds ----------------------------------- *)

\* Number of identifiers the contacts.id sequence hands out in a run.
MaxId == 2

Workers == {1, 2}

SerialWorkers == {1}

(* ------------------------------ data ----------------------------------- *)

\* Role (models.py): the three enumeration values.
Role == {"admin", "moderator", "user"}

\* users table (models.py User): id -> roles.  Registration is not part of
\* this model, so the table is fixed by the initial state.
Users == DOMAIN users

UserRoles(user) == users[user]

\* Python None for an Optional[str] / Optional[date] value.
NoneStr == << "<None>" >>

NoDate == << >>

\* Strings are sequences of characters.
Ann == << "A", "n", "n" >>
Bob == << "B", "o", "b" >>
Lee == << "L", "e", "e" >>
Ray == << "R", "a", "y" >>
MailA == << "a", "@", "x" >>
MailB == << "b", "@", "x" >>
Phone1 == << "0", "1", "2", "3", "4", "5", "6", "7", "8", "9" >>
Phone2 == << "0", "1", "2", "3", "4", "5", "6", "7", "9", "9" >>
Info1 == << "h", "i" >>
Info2 == << >>

\* Request bodies that pass ContactModel validation (schemas.py): dates are
\* <<year, month, day>>, birthday defaults to None.
Body(name, surname, email, phone, birthday, additional_info) ==
    [name |-> name, surname |-> surname, email |-> email, phone |-> phone,
     birthday |-> birthday, additional_info |-> additional_info]

Bodies ==
    { Body(Ann, Lee, MailA, Phone1, << 1990, 6, 15 >>, Info1),
      Body(Bob, Ray, MailB, Phone2, NoDate, Info2),
      Body(Bob, Lee, MailA, Phone2, << 2000, 2, 29 >>, Info1) }

NoBody == Body(<< >>, << >>, << >>, << >>, NoDate, << >>)

\* Contact built without the birthday of the body.
ContactWithoutBirthday(id, user_id, body) ==
    [id |-> id, user_id |-> user_id, name |-> body.name, surname |-> body.surname,
     email |-> body.email, phone |-> body.phone, birthday |-> NoDate,
     additional_info |-> body.additional_info]

\* A row of the contacts table (models.py Contact); created_at / updated_at
\* are filled by the store and read by nothing here.
Contact(id, user_id, body) ==
    [id |-> id, user_id |-> user_id, name |-> body.name, surname |-> body.surname,
     email |-> body.email, phone |-> body.phone, birthday |-> body.birthday,
     additional_info |-> body.additional_info]

\* Python None where a Contact is expected (identifiers start at 1).
NoContact == Contact(0, 0, NoBody)

Fields == {"name", "surname", "email", "phone", "birthday", "additional_info"}

(* ------------------------- authorization gate -------------------------- *)

\* routes/contacts.py: the four role policies.
allowed_operation_get == {"admin", "moderator", "user"}

allowed_operation_create == {"admin", "moderator", "user"}

allowed_operation_update == {"admin", "moderator"}

allowed_operation_remove == {"admin"}

\* services/roles.py RoleAccess.__call__: allow iff the caller's role is in
\* the policy's allow-list, else 403.
RoleAccess(allowed_roles, user) == UserRoles(user) \in allowed_roles

\* The policy each route declares in its dependencies=[...] list.
create_contact_policy == allowed_operation_create

update_contact_policy == allowed_operation_get

delete_contact_policy == allowed_operation_get

read_policy == allowed_operation_get

(* ------------------------------ store ---------------------------------- *)

\* db.query(Contact).filter_by(...).first(): the matching row or None.  The
\* filters below match at most one row (id is the primary key, email and
\* phone are unique).
First(rows) == IF rows = {} THEN NoContact ELSE CHOOSE r \in rows : TRUE

\* get_contact_by_id without the user_id filter.
get_contact_by_id_any_user(user, contact_id, db) ==
    First({r \in db : r.id = contact_id})

get_contact_by_id(user, contact_id, db) ==
    First({r \in db : r.user_id = user /\ r.id = contact_id})

get_contact_by_email(user, email, db) ==
    First({r \in db : r.user_id = user /\ r.email = email})

get_contact_by_phone(user, phone, db) ==
    First({r \in db : r.user_id = user /\ r.phone = phone})

\* models.py: email and phone are unique=True columns of the contacts table;
\* a statement that would leave two rows with one email or one phone is
\* rejected by the store (IntegrityError).
UniqueViolation(db, row) ==
    \E r \in db : r.id # row.id /\ (r.email = row.email \/ r.phone = row.phone)

\* db.add(contact); db.commit(): INSERT with the next value of the id sequence.
Insert(db, row) ==
    IF UniqueViolation(db, row)
    THEN [error |-> "IntegrityError", db |-> db]
    ELSE [error |-> "", db |-> db \cup {row}]

\* The row with this primary key, as the store holds it now.
RowById(db, id) == First({r \in db : r.id = id})

\* Update on a table whose email and phone columns are not unique.
UpdateUnchecked(db, id, cols, body) ==
    LET old == First({r \in db : r.id = id})
        new == [f \in DOMAIN old |-> IF f \in cols THEN body[f] ELSE old[f]]
    IN  IF cols = {} THEN [error |-> "", db |-> db]
        ELSE IF old = NoContact THEN [error |-> "StaleDataError", db |-> db]
        ELSE [error |-> "", db |-> (db \ {old}) \cup {new}]

\* contact.<col> = body.<col> ...; db.commit(): UPDATE contacts SET <cols>
\* WHERE id = <pk>.  The unit of work writes the columns in cols; no column,
\* no statement.  A statement that matches no row raises StaleDataError.
Update(db, id, cols, body) ==
    LET old == RowById(db, id)
        new == [f \in DOMAIN old |-> IF f \in cols THEN body[f] ELSE old[f]]
    IN  IF cols = {} THEN [error |-> "", db |-> db]
        ELSE IF old = NoContact THEN [error |-> "StaleDataError", db |-> db]
        ELSE IF UniqueViolation(db, new) THEN [error |-> "IntegrityError", db |-> db]
        ELSE [error |-> "", db |-> (db \ {old}) \cup {new}]

\* A delete that is never committed.
DeleteNothing(db, id) == db

DeleteOthers(db, id) == {r \in db : r.id = id}

\* db.delete(contact); db.commit(): DELETE FROM contacts WHERE id = <pk>.  A
\* DELETE that matches no row is only warned about.
Delete(db, id) == {r \in db : r.id # id}

(* ---------------------------- responses -------------------------------- *)

HTTP_201_CREATED == 201

HTTP_204_NO_CONTENT == 204

HTTP_404_NOT_FOUND == 404

HTTP_409_CONFLICT == 409

\* schemas.py ContactResponse (orm_mode): the wire object built from a row.
\* user_id is not part of it; birthday is declared `date`, so a row whose
\* birthday is None does not validate.
ContactResponse(c) ==
    [id |-> c.id, name |-> c.name, surname |-> c.surname, email |-> c.email,
     phone |-> c.phone, birthday |-> c.birthday, additional_info |-> c.additional_info]

ContactResponseValid(c) == c.birthday # NoDate

NoResponse == [status |-> 0, body |-> << >>, error |-> ""]

\* HTTPException / unhandled exception: a status and no contact in the body.
Error(status, error) == [status |-> status, body |-> << >>, error |-> error]

\* `return contacts` under response_model=ContactResponse / List[ContactResponse].
Respond(status, rows) ==
    IF \A i \in DOMAIN rows : ContactResponseValid(rows[i])
    THEN [status |-> status, body |-> [i \in DOMAIN rows |-> ContactResponse(rows[i])],
          error |-> ""]
    ELSE Error(500, "ResponseValidationError")

(* ------------------------------ requests -------------------------------- *)

\* arg: the query parameters of the read routes (<<limit, offset>>, the
\* search query, or today's date for the birthdays route).
Request(op, user, contact_id, body, arg) ==
    [op |-> op, user |-> user, contact_id |-> contact_id, body |-> body, arg |-> arg]

NoRequest == Request("", 0, 0, NoBody, << >>)

\* Path(ge=1): identifiers a caller may name, beyond those handed out.
ContactIds == 1 .. MaxId

\* Three registered users, one of each role, and an empty contacts table.
Init ==
    /\ users = (1 :> "admin") @@ (2 :> "moderator") @@ (3 :> "user")
    /\ contacts = {}
    /\ changed = [p \in Workers |-> FALSE]
    /\ next_id = 1
    /\ pc = [p \in Workers |-> "idle"]
    /\ req = [p \in Workers |-> NoRequest]
    /\ contact = [p \in Workers |-> NoContact]
    /\ has_contact_by_email = [p \in Workers |-> FALSE]
    /\ listed = [p \in Workers |-> << >>]
    /\ resp = [p \in Workers |-> NoResponse]

\* The handler returns or raises: the response leaves the worker.
Finish(p, response) ==
    /\ pc' = [pc EXCEPT ![p] = "done"]
    /\ resp' = [resp EXCEPT ![p] = response]

Goto(p, label) ==
    /\ pc' = [pc EXCEPT ![p] = label]
    /\ UNCHANGED resp

(* --------------------------- POST /contacts/ ---------------------------- *)

\* routes create_contact: the role gate, then the probe by email.
CreateProbeEmail(p) ==
    /\ pc[p] = "idle"
    /\ \E user \in Users, body \in Bodies :
        /\ req' = [req EXCEPT ![p] = Request("create", user, 0, body, << >>)]
        /\ IF ~RoleAccess(create_contact_policy, user)
           THEN /\ Finish(p, Error(403, "Forbidden"))
                /\ UNCHANGED has_contact_by_email
           ELSE /\ has_contact_by_email' = [has_contact_by_email EXCEPT ![p] =
                        get_contact_by_email(user, body.email, contacts) # NoContact]
                /\ Goto(p, "probe_phone")
    /\ UNCHANGED <<users, changed, contacts, next_id, contact, listed>>

\* The probe by phone, then the 409 if either probe found a contact.
CreateProbePhone(p) ==
    /\ pc[p] = "probe_phone"
    /\ LET has_contact_by_phone ==
               get_contact_by_phone(req[p].user, req[p].body.phone, contacts) # NoContact
       IN  IF has_contact_by_email[p] \/ has_contact_by_phone
           THEN Finish(p, Error(HTTP_409_CONFLICT, "Already exists"))
           ELSE Goto(p, "insert")
    /\ UNCHANGED <<users, changed, contacts, next_id, req, contact, has_contact_by_email, listed>>

\* repository create_contact: Contact(**body.dict(), user_id=user.id),
\* db.add, db.commit.  The id sequence advances even when the INSERT fails.
CreateInsert(p) ==
    /\ pc[p] = "insert"
    /\ next_id <= MaxId
    /\ LET row == Contact(next_id, req[p].user, req[p].body)
           res == Insert(contacts, row)
       IN  /\ contacts' = res.db
           /\ next_id' = next_id + 1
           /\ IF res.error # ""
              THEN /\ Finish(p, Error(500, res.error))
                   /\ UNCHANGED contact
              ELSE /\ contact' = [contact EXCEPT ![p] = row]
                   /\ Goto(p, "refresh")
    /\ changed' = [changed EXCEPT ![p] = @ \/ contacts' # contacts]
    /\ UNCHANGED <<users, req, has_contact_by_email, listed>>

\* db.refresh(contact): reload the row by primary key; then the route returns
\* it with 201.
CreateRefresh(p) ==
    /\ pc[p] = "refresh"
    /\ LET row == RowById(contacts, contact[p].id)
       IN  IF row = NoContact
           THEN /\ Finish(p, Error(500, "InvalidRequestError"))
                /\ UNCHANGED contact
           ELSE /\ contact' = [contact EXCEPT ![p] = row]
                /\ Finish(p, Respond(HTTP_201_CREATED, << row >>))
    /\ UNCHANGED <<users, changed, contacts, next_id, req, has_contact_by_email, listed>>

(* ----------------------- PUT /contacts/{contact_id} --------------------- *)

\* routes update_contact -> repository update_contact: the role gate, then
\* get_contact_by_id; None is answered 404.
UpdateSelect(p) ==
    /\ pc[p] = "idle"
    /\ \E user \in Users, contact_id \in ContactIds, body \in Bodies :
        /\ req' = [req EXCEPT ![p] = Request("update", user, contact_id, body, << >>)]
        /\ IF ~RoleAccess(update_contact_policy, user)
           THEN /\ Finish(p, Error(403, "Forbidden"))
                /\ UNCHANGED contact
           ELSE LET found == get_contact_by_id(user, contact_id, contacts)
                IN  IF found = NoContact
                    THEN /\ Finish(p, Error(HTTP_404_NOT_FOUND, "Not found"))
                         /\ UNCHANGED contact
                    ELSE /\ contact' = [contact EXCEPT ![p] = found]
                         /\ Goto(p, "update_commit")
    /\ UNCHANGED <<users, changed, contacts, next_id, has_contact_by_email, listed>>

\* The assignments with the one of additional_info left out.
AssignWithoutAdditionalInfo(c, body) ==
    [c EXCEPT !.name = body.name, !.surname = body.surname, !.email = body.email,
              !.phone = body.phone, !.birthday = body.birthday]

\* The six assignments of the repository; Python attribute assignment.
Assign(c, body) ==
    [c EXCEPT !.name = body.name, !.surname = body.surname, !.email = body.email,
              !.phone = body.phone, !.birthday = body.birthday,
              !.additional_info = body.additional_info]

\* repository update_contact: the six assignments and db.commit().  The loaded
\* values are known, so the UPDATE carries the columns whose value changes.
UpdateCommit(p) ==
    /\ pc[p] = "update_commit"
    /\ LET new == Assign(contact[p], req[p].body)
           cols == {f \in Fields : new[f] # contact[p][f]}
           res == Update(contacts, contact[p].id, cols, req[p].body)
       IN  /\ contacts' = res.db
           /\ IF res.error # ""
              THEN /\ Finish(p, Error(500, res.error))
                   /\ UNCHANGED contact
              ELSE /\ contact' = [contact EXCEPT ![p] = new]
                   /\ Goto(p, "update_route")
    /\ changed' = [changed EXCEPT ![p] = @ \/ contacts' # contacts]
    /\ UNCHANGED <<users, next_id, req, has_contact_by_email, listed>>

\* routes update_contact: the same six assignments again and a second
\* db.commit().  The first commit expired the loaded values, so this UPDATE
\* carries all six columns.  Then the route returns the contact with 200.
UpdateRoute(p) ==
    /\ pc[p] = "update_route"
    /\ LET new == Assign(contact[p], req[p].body)
           res == Update(contacts, contact[p].id, Fields, req[p].body)
       IN  /\ contacts' = res.db
           /\ IF res.error # ""
              THEN /\ Finish(p, Error(500, res.error))
                   /\ UNCHANGED contact
              ELSE /\ contact' = [contact EXCEPT ![p] = new]
                   /\ Finish(p, Respond(200, << new >>))
    /\ changed' = [changed EXCEPT ![p] = @ \/ contacts' # contacts]
    /\ UNCHANGED <<users, next_id, req, has_contact_by_email, listed>>

(* --------------------- DELETE /contacts/{contact_id} -------------------- *)

\* routes delete_contact -> repository delete_contact: the role gate, then
\* get_contact_by_id; None is answered 404.
DeleteSelect(p) ==
    /\ pc[p] = "idle"
    /\ \E user \in Users, contact_id \in ContactIds :
        /\ req' = [req EXCEPT ![p] = Request("delete", user, contact_id, NoBody, << >>)]
        /\ IF ~RoleAccess(delete_contact_policy, user)
           THEN /\ Finish(p, Error(403, "Forbidden"))
                /\ UNCHANGED contact
           ELSE LET found == get_contact_by_id(user, contact_id, contacts)
                IN  IF found = NoContact
                    THEN /\ Finish(p, Error(HTTP_404_NOT_FOUND, "Not found"))
                         /\ UNCHANGED contact
                    ELSE /\ contact' = [contact EXCEPT ![p] = found]
                         /\ Goto(p, "delete_commit")
    /\ UNCHANGED <<users, changed, contacts, next_id, has_contact_by_email, listed>>

\* repository delete_contact: db.delete(contact); db.commit().
DeleteCommit(p) ==
    /\ pc[p] = "delete_commit"
    /\ contacts' = Delete(contacts, contact[p].id)
    /\ Goto(p, "delete_route")
    /\ changed' = [changed EXCEPT ![p] = @ \/ contacts' # contacts]
    /\ UNCHANGED <<users, next_id, req, contact, has_contact_by_email, listed>>

\* routes delete_contact: db.delete(contact) and db.commit() once more on the
\* returned object, then 204 with no body.
DeleteRoute(p) ==
    /\ pc[p] = "delete_route"
    /\ contacts' = Delete(contacts, contact[p].id)
    /\ Finish(p, [status |-> HTTP_204_NO_CONTENT, body |-> << >>, error |-> ""])
    /\ changed' = [changed EXCEPT ![p] = @ \/ contacts' # contacts]
    /\ UNCHANGED <<users, next_id, req, contact, has_contact_by_email, listed>>

(* ------------------------------ queries --------------------------------- *)

\* The rows in the order the store returns them: by primary key.
RECURSIVE OrderById(_)
OrderById(rows) ==
    IF rows = {} THEN << >>
    ELSE LET first == CHOOSE r \in rows : \A q \in rows : r.id <= q.id
         IN  << first >> \o OrderById(rows \ {first})

\* get_contacts without the user_id filter.
get_contacts_all_users(user, limit, offset, db) ==
    LET all == OrderById(db)
        last == IF offset + limit < Len(all) THEN offset + limit ELSE Len(all)
    IN  SubSeq(all, offset + 1, last)

\* repository get_contacts: filter_by(user_id).limit(limit).offset(offset).all()
get_contacts(user, limit, offset, db) ==
    LET all == OrderById({r \in db : r.user_id = user})
        last == IF offset + limit < Len(all) THEN offset + limit ELSE Len(all)
    IN  SubSeq(all, offset + 1, last)

UpperCase == << "A", "B", "L", "N", "R", "X" >>

LowerCase == << "a", "b", "l", "n", "r", "x" >>

\* func.lower on one character, then on a string.
LowerChar(c) ==
    IF \E i \in DOMAIN UpperCase : UpperCase[i] = c
    THEN LowerCase[CHOOSE i \in DOMAIN UpperCase : UpperCase[i] = c]
    ELSE c

Lower(str) == [i \in DOMAIN str |-> LowerChar(str[i])]

\* SQL LIKE: % matches any run of characters, _ any one character.
RECURSIVE Like(_, _)
Like(str, pattern) ==
    IF pattern = << >> THEN str = << >>
    ELSE IF Head(pattern) = "%"
         THEN Like(str, Tail(pattern)) \/ (str # << >> /\ Like(Tail(str), pattern))
         ELSE /\ str # << >>
              /\ Head(pattern) = "_" \/ Head(pattern) = Head(str)
              /\ Like(Tail(str), Tail(pattern))

\* func.lower(column).contains(func.lower(query)):
\* lower(column) LIKE '%' || lower(query) || '%'; NULL when query is None.
Contains(column, query) ==
    /\ query # NoneStr
    /\ Like(Lower(column), << "%" >> \o Lower(query) \o << "%" >>)

\* repository search_contacts
search_contacts(user, query, db) ==
    OrderById({r \in db : /\ r.user_id = user
                          /\ \/ Contains(r.name, query)
                             \/ Contains(r.surname, query)
                             \/ Contains(r.email, query)
                             \/ Contains(r.phone, query)})

\* datetime.date arithmetic on <<year, month, day>>.
IsLeap(year) == (year % 4 = 0 /\ year % 100 # 0) \/ year % 400 = 0

DaysInMonth(year, month) ==
    CASE month = 2 -> IF IsLeap(year) THEN 29 ELSE 28
      [] month \in {4, 6, 9, 11} -> 30
      [] OTHER -> 31

RECURSIVE DaysBeforeMonth(_, _)
DaysBeforeMonth(year, month) ==
    IF month = 1 THEN 0
    ELSE DaysBeforeMonth(year, month - 1) + DaysInMonth(year, month - 1)

DayOfYear(date) == DaysBeforeMonth(date[1], date[2]) + date[3]

\* birthday.replace(year=now.year) raises ValueError when the day does not
\* exist in that year.
ReplaceYearFails(birthday, year) == birthday[3] > DaysInMonth(year, birthday[2])

\* (birthday_this_year - now).days: both dates lie in now's year.
days_until_birthday(birthday, now) ==
    DayOfYear(<< now[1], birthday[2], birthday[3] >>) - DayOfYear(now)

\* repository get_birthdays: the rows the loop appends, and whether the loop
\* raises on one of the user's contacts.
get_birthdays(user, now, db) ==
    OrderById({r \in db : /\ r.user_id = user
                          /\ r.birthday # NoDate
                          /\ ~ReplaceYearFails(r.birthday, now[1])
                          /\ days_until_birthday(r.birthday, now) \in 0 .. 7})

get_birthdays_raises(user, now, db) ==
    \E r \in db : /\ r.user_id = user
                  /\ r.birthday # NoDate
                  /\ ReplaceYearFails(r.birthday, now[1])

(* ----------------------------- read routes ------------------------------ *)

Limits == {1, 10}

Offsets == {0, 1}

Queries == { << "A", "N", "N" >>, << "x" >>, << "a", "_", "x" >>, << "9", "9" >>, NoneStr }

Todays == { << 2024, 6, 10 >>, << 2024, 6, 16 >>, << 2024, 2, 25 >>, << 2023, 2, 25 >> }

\* A read route: the role gate, one query, the serialised list.
ReadList(p, request, rows, raises) ==
    /\ pc[p] = "idle"
    /\ req' = [req EXCEPT ![p] = request]
    /\ IF ~RoleAccess(read_policy, request.user)
       THEN /\ Finish(p, Error(403, "Forbidden"))
            /\ UNCHANGED listed
       ELSE IF raises
            THEN /\ Finish(p, Error(500, "ValueError"))
                 /\ UNCHANGED listed
            ELSE /\ listed' = [listed EXCEPT ![p] = rows]
                 /\ Finish(p, Respond(200, rows))
    /\ UNCHANGED <<users, changed, contacts, next_id, contact, has_contact_by_email>>

\* GET /contacts/
GetContacts(p) ==
    \E user \in Users, limit \in Limits, offset \in Offsets :
        ReadList(p, Request("list", user, 0, NoBody, << limit, offset >>),
                 get_contacts(user, limit, offset, contacts), FALSE)

\* GET /contacts/search
SearchContacts(p) ==
    \E user \in Users, query \in Queries :
        ReadList(p, Request("search", user, 0, NoBody, query),
                 search_contacts(user, query, contacts), FALSE)

\* GET /contacts/birthdays
GetBirthdays(p) ==
    \E user \in Users, now \in Todays :
        ReadList(p, Request("birthdays", user, 0, NoBody, now),
                 get_birthdays(user, now, contacts),
                 get_birthdays_raises(user, now, contacts))

\* GET /contacts/{contact_id}: None is answered 404.
GetContact(p) ==
    /\ pc[p] = "idle"
    /\ \E user \in Users, contact_id \in ContactIds :
        /\ req' = [req EXCEPT ![p] = Request("get", user, contact_id, NoBody, << >>)]
        /\ IF ~RoleAccess(read_policy, user)
           THEN /\ Finish(p, Error(403, "Forbidden"))
                /\ UNCHANGED contact
           ELSE LET found == get_contact_by_id(user, contact_id, contacts)
                IN  IF found = NoContact
                    THEN /\ Finish(p, Error(HTTP_404_NOT_FOUND, "Not found"))
                         /\ UNCHANGED contact
                    ELSE /\ contact' = [contact EXCEPT ![p] = found]
                         /\ Finish(p, Respond(200, << found >>))
    /\ UNCHANGED <<users, changed, contacts, next_id, has_contact_by_email, listed>>

(* ------------------------------ workers --------------------------------- *)

\* The response is sent; the worker takes the next request with fresh locals.
Reply(p) ==
    /\ pc[p] = "done"
    /\ pc' = [pc EXCEPT ![p] = "idle"]
    /\ req' = [req EXCEPT ![p] = NoRequest]
    /\ contact' = [contact EXCEPT ![p] = NoContact]
    /\ has_contact_by_email' = [has_contact_by_email EXCEPT ![p] = FALSE]
    /\ listed' = [listed EXCEPT ![p] = << >>]
    /\ resp' = [resp EXCEPT ![p] = NoResponse]
    /\ changed' = [changed EXCEPT ![p] = FALSE]
    /\ UNCHANGED <<users, contacts, next_id>>

WriteStep(p) ==
    \/ CreateProbeEmail(p)
    \/ CreateProbePhone(p)
    \/ CreateInsert(p)
    \/ CreateRefresh(p)
    \/ UpdateSelect(p)
    \/ UpdateCommit(p)
    \/ UpdateRoute(p)
    \/ DeleteSelect(p)
    \/ DeleteCommit(p)
    \/ DeleteRoute(p)
    \/ Reply(p)

ReadStep(p) ==
    \/ GetContacts(p)
    \/ SearchContacts(p)
    \/ GetBirthdays(p)
    \/ GetContact(p)

\* One worker: requests are served one after the other.
Next == \E p \in SerialWorkers : WriteStep(p) \/ ReadStep(p)

Spec == Init /\ [][Next]_vars

\* Several workers on one store, two registered users: the statements of
\* concurrent create, update and delete requests interleave.
InitConc ==
    /\ users = (1 :> "admin") @@ (3 :> "user")
    /\ contacts = {}
    /\ changed = [p \in Workers |-> FALSE]
    /\ next_id = 1
    /\ pc = [p \in Workers |-> "idle"]
    /\ req = [p \in Workers |-> NoRequest]
    /\ contact = [p \in Workers |-> NoContact]
    /\ has_contact_by_email = [p \in Workers |-> FALSE]
    /\ listed = [p \in Workers |-> << >>]
    /\ resp = [p \in Workers |-> NoResponse]

NextConc == \E p \in Workers : WriteStep(p)

SpecConc == InitConc /\ [][NextConc]_vars

(* ------------------------------ properties ------------------------------ *)

Done(p, op) == pc[p] = "done" /\ req[p].op = op

\* A contact with this identifier exists and belongs to somebody else.
ForeignContact(user, contact_id, db) ==
    \E c \in db : c.id = contact_id /\ c.user_id # user

\* Another contact than `own` holds this email or this phone.
HeldByAnother(body, own, db) ==
    \E c \in db : c.id # own /\ (c.email = body.email \/ c.phone = body.phone)

\* Worker p takes a step.
Steps(p) == pc'[p] # pc[p]

\* Worker p starts a request of kind op in this step.
Starts(p, op) == pc[p] = "idle" /\ req'[p].op = op

\* C1: per-user read isolation.  Get-by-id with the identifier of another
\* user's contact is answered not-found and returns nothing; list, search and
\* upcoming-birthdays answers hold no contact owned by another user.
C1_ReadIsolation ==
    \A p \in Workers :
        /\ Done(p, "get") /\ ForeignContact(req[p].user, req[p].contact_id, contacts)
              => /\ resp[p].status = HTTP_404_NOT_FOUND
                 /\ resp[p].body = << >>
                 /\ contact[p] = NoContact
        /\ pc[p] = "done" /\ req[p].op \in {"list", "search", "birthdays"}
              => /\ \A i \in DOMAIN listed[p] : listed[p][i].user_id = req[p].user
                 /\ \A i \in DOMAIN resp[p].body :
                        ~ForeignContact(req[p].user, resp[p].body[i].id, contacts)

C1_Witness ==
    \E p \in Workers :
        /\ Done(p, "get")
        /\ ForeignContact(req[p].user, req[p].contact_id, contacts)
        /\ \E c \in contacts : c.user_id = req[p].user

\* C2: per-user write isolation.  An update or delete that names a contact
\* owned by another user is answered not-found in its first step and leaves
\* the whole store as it was.
C2_WriteIsolation ==
    [][\A p \in Workers :
          /\ Starts(p, "update") \/ Starts(p, "delete")
          /\ ForeignContact(req'[p].user, req'[p].contact_id, contacts)
          => /\ pc'[p] = "done"
             /\ resp'[p].status = HTTP_404_NOT_FOUND
             /\ contacts' = contacts]_vars

C2_Witness ==
    \E p \in Workers :
        /\ Done(p, "update") \/ Done(p, "delete")
        /\ ForeignContact(req[p].user, req[p].contact_id, contacts)

\* C3: role gating of delete.  A delete request of a caller whose role is not
\* admin is answered 403 before it reaches the repository.
C3_DeleteRoleGating ==
    \A p \in Workers :
        req[p].op = "delete" /\ UserRoles(req[p].user) \notin allowed_operation_remove
            => pc[p] = "done" /\ resp[p].status = 403

\* C4: role gating of update.  An update request of a caller whose role is
\* neither admin nor moderator is answered 403 before it reaches the repository.
C4_UpdateRoleGating ==
    \A p \in Workers :
        req[p].op = "update" /\ UserRoles(req[p].user) \notin allowed_operation_update
            => pc[p] = "done" /\ resp[p].status = 403

\* C5: uniqueness conflict on create.  A create whose email or phone is held
\* by a contact of any user is answered 409 and adds no contact.
C5_CreateConflict ==
    \A p \in Workers :
        Done(p, "create") /\ HeldByAnother(req[p].body, contact[p].id, contacts)
            => resp[p].status = HTTP_409_CONFLICT /\ contact[p] = NoContact

\* C6: create race.  Of two concurrent creates of one user with the same email
\* or phone, the one whose insert the store rejects is answered 409.
C6_CreateRaceConflict ==
    \A p, q \in Workers :
        /\ p # q
        /\ Done(p, "create") /\ contact[p] = NoContact
        /\ req[q].op = "create" /\ contact[q] \in contacts
        /\ req[p].user = req[q].user
        /\ req[p].body.email = req[q].body.email \/ req[p].body.phone = req[q].body.phone
        => resp[p].status = HTTP_409_CONFLICT

\* C7: global uniqueness.  In every state reachable by interleaved create,
\* update and delete requests, no two distinct contacts share an email and
\* no two share a phone.
C7_GlobalUniqueness ==
    \A c, d \in contacts :
        c # d => c.email # d.email /\ c.phone # d.phone

\* An update asked for an email or phone of another contact and was rejected.
C7_Witness ==
    \E p \in Workers :
        /\ Done(p, "update")
        /\ resp[p].error = "IntegrityError"
        /\ HeldByAnother(req[p].body, req[p].contact_id, contacts)

\* C8: delete of an owned contact.  A permitted delete that finds the contact
\* goes through both commits, removes exactly that contact, and ends with 204.
C8_DeleteOwned ==
    [][\A p \in Workers :
          /\ /\ Starts(p, "delete")
             /\ RoleAccess(delete_contact_policy, req'[p].user)
             /\ \E c \in contacts : c.id = req'[p].contact_id /\ c.user_id = req'[p].user
             => /\ pc'[p] = "delete_commit"
                /\ contact'[p] \in contacts
                /\ contact'[p].id = req'[p].contact_id
                /\ contacts' = contacts
          /\ pc[p] = "delete_commit" /\ Steps(p)
             => /\ pc'[p] = "delete_route"
                /\ contact[p] \in contacts
                /\ contacts' = contacts \ {contact[p]}
          /\ pc[p] = "delete_route" /\ Steps(p)
             => /\ pc'[p] = "done"
                /\ resp'[p].status = HTTP_204_NO_CONTENT
                /\ contacts' = contacts
                /\ \A c \in contacts' : c.id # req[p].contact_id]_vars

C8_Witness ==
    \E p \in Workers :
        /\ Done(p, "delete")
        /\ resp[p].status = HTTP_204_NO_CONTENT
        /\ contacts # {}

\* The caller-supplied fields of a record equal those of a body.
SameFields(c, body) == \A f \in Fields : c[f] = body[f]

\* C9: create / get round trip.  The record a create returns carries a
\* generated identifier, the caller as owner and the fields of the body (a
\* missing birthday included); get-by-id with that identifier returns the same
\* record; a 201 answer carries it.
C9_CreateGetRoundTrip ==
    \A p \in Workers :
        Done(p, "create") /\ contact[p] # NoContact
            => /\ contact[p].id >= 1
               /\ contact[p].user_id = req[p].user
               /\ SameFields(contact[p], req[p].body)
               /\ get_contact_by_id(req[p].user, contact[p].id, contacts) = contact[p]
               /\ resp[p].status = HTTP_201_CREATED
                    => resp[p].body = << ContactResponse(contact[p]) >>

C9_Witness ==
    \E p \in Workers :
        /\ Done(p, "create")
        /\ contact[p] # NoContact
        /\ req[p].body.birthday = NoDate
        /\ Cardinality(contacts) > 1

Absent(user, contact_id, db) == get_contact_by_id(user, contact_id, db) = NoContact

\* C11: repeated delete.  A delete that is answered 204 leaves the caller
\* without that contact; a contact the caller does not have comes into
\* existence only through a create's INSERT, under a fresh identifier; and a
\* delete of a contact the caller does not have is answered 404 and leaves
\* the store unchanged.  So delete(user, id) after delete(user, id), with no
\* create in between, is answered 404 and changes nothing.
C11_RepeatedDelete ==
    [][/\ \A p \in Workers :
             /\ pc[p] = "delete_route" /\ Steps(p)
                => Absent(req[p].user, req[p].contact_id, contacts')
             /\ Starts(p, "delete") /\ Absent(req'[p].user, req'[p].contact_id, contacts)
                => /\ pc'[p] = "done"
                   /\ resp'[p].status = HTTP_404_NOT_FOUND
                   /\ contacts' = contacts
       /\ \A user \in Users, contact_id \in 1..(MaxId + 1) :
             Absent(user, contact_id, contacts) /\ ~Absent(user, contact_id, contacts')
                => /\ contact_id = next_id
                   /\ next_id' = next_id + 1
                   /\ \E p \in Workers : pc[p] = "insert" /\ Steps(p)]_vars

\* A delete of the one contact ever created, after that contact was removed:
\* identifier 1 was handed out, the store is empty, the answer is 404.
C11_Witness ==
    \E p \in Workers :
        /\ Done(p, "delete")
        /\ req[p].contact_id = 1
        /\ next_id = 2
        /\ contacts = {}
        /\ resp[p].status = HTTP_404_NOT_FOUND
        /\ ~changed[p]

\* The set of rows of a returned list.
Rows(list) == {list[i] : i \in DOMAIN list}

\* The birthday falls on a day that exists in the year of today, and that day
\* is today or one of the seven days after it.
InBirthdayWindow(birthday, now) ==
    /\ birthday[3] <= DaysInMonth(now[1], birthday[2])
    /\ \E days \in 0 .. 7 :
          DayOfYear(<< now[1], birthday[2], birthday[3] >>) = DayOfYear(now) + days

\* C12: birthday window.  For every current date and every set of contacts,
\* the birthdays request returns exactly the caller's contacts that have a
\* birthday whose occurrence in the current year is 0..7 days ahead; passed
\* birthdays are not rolled forward, contacts without a birthday are not
\* returned.
C12_BirthdayWindow ==
    \A p \in Workers :
        Done(p, "birthdays")
        => /\ resp[p].status = 200
           /\ Rows(listed[p]) = {c \in contacts : /\ c.user_id = req[p].user
                                                  /\ c.birthday # NoDate
                                                  /\ InBirthdayWindow(c.birthday, req[p].arg)}
           /\ Len(resp[p].body) = Len(listed[p])

\* sub occurs in str as a run of consecutive characters.
IsSubstring(sub, str) ==
    \E i \in 0 .. Len(str) - Len(sub) : SubSeq(str, i + 1, i + Len(sub)) = sub

\* query, compared case-insensitively, is a substring of one of the four
\* searched fields of the contact.
Matches(c, query) ==
    \E field \in {c.name, c.surname, c.email, c.phone} :
        IsSubstring(Lower(query), Lower(field))

\* C13: search.  The repository's search with a query string returns exactly
\* the caller's contacts of which the name, the surname, the email or the phone contains
\* the query, compared case-insensitively; no contact of another user and no
\* non-matching contact is returned.
C13_SearchSubstring ==
    \A p \in Workers :
        Done(p, "search") /\ req[p].arg # NoneStr
        => Rows(listed[p]) = {c \in contacts : /\ c.user_id = req[p].user
                                                /\ Matches(c, req[p].arg)}

\* Worker p is between the SELECT and the answer of an update or a delete.
InFlight(p, op) ==
    /\ req[p].op = op
    /\ pc[p] \in {"update_commit", "update_route", "delete_commit", "delete_route"}

\* Two workers serve requests of the same user on the same contact.
SameTarget(p, q) ==
    /\ p # q
    /\ req[p].user = req[q].user
    /\ req[p].contact_id = req[q].contact_id

\* Worker p is about to commit on a contact that another request removed
\* after p's SELECT found it.
LostToDelete(p) ==
    /\ pc[p] \in {"update_commit", "update_route", "delete_commit"}
    /\ RowById(contacts, req[p].contact_id) = NoContact

\* C14: races on one contact.  Of two concurrent updates of one contact by
\* one user (with bodies that can be stored and returned) each is answered
\* 200, and when an update is answered the stored fields are those of its
\* body, so the last one to commit wins.  An update or a delete that finds
\* the contact removed by a concurrent delete is answered 404, not an internal
\* error, and leaves the store as it is.
C14_RacesOnOneContact ==
    [][\A p \in Workers :
          /\ \A q \in Workers :
                /\ SameTarget(p, q) /\ InFlight(p, "update") /\ InFlight(q, "update")
                /\ req[p].body.birthday # NoDate
                /\ ~HeldByAnother(req[p].body, req[p].contact_id, contacts)
                /\ Steps(p)
                => /\ pc'[p] = "done" => pc[p] = "update_route"
                   /\ pc'[p] = "done"
                      => /\ resp'[p].status = 200
                         /\ SameFields(RowById(contacts', req[p].contact_id), req[p].body)
          /\ LostToDelete(p) /\ Steps(p)
             => /\ pc'[p] = "done"
                /\ resp'[p].status = HTTP_404_NOT_FOUND
                /\ contacts' = contacts]_vars

\* C15: no state change on a failed request.  When a create, an update or a
\* delete is answered with an error status, none of the request's commits has
\* changed the stored contacts.
C15_NoChangeOnError ==
    \A p \in Workers :
        /\ pc[p] = "done"
        /\ req[p].op \in {"create", "update", "delete"}
        /\ resp[p].status >= 400
        => ~changed[p]

====
